---- MODULE Spec2Model ----
(***************************************************************************)
(* State-machine model of src/main.js: the Three.js scene set-up, the      *)
(* asynchronous GLB load with its fallback, the resize handler, the        *)
(* requestAnimationFrame render loop, the rotateModel polling retry, the   *)
(* ScrollTrigger.matchMedia responsive variants and the per-card mousemove *)
(* handler.                                                                *)
(*                                                                         *)
(* Lengths in the scene are integers in thousandths of a scene unit.       *)
(* Init is the state right after the script has run to its last line: the  *)
(* first synchronous animate() (line 119) and rotateModel() (line 182)     *)
(* calls have already executed with model = null, because the loader's     *)
(* callbacks are only ever delivered later, from the event loop.           *)
(***************************************************************************)
EXTENDS Integers, Sequences, FiniteSets, TLC

VARIABLES
    viewport,         \* environment: the browser viewport (window.*)
    resizePending,    \* a 'resize' event is queued for the handler
    mediaPending,     \* the media queries have to be re-evaluated
    sizes,            \* const sizes = { width, height }
    cameraAspect,     \* camera.aspect, a reduced fraction <<num, den>>
    projectionAspect, \* the aspect baked in by updateProjectionMatrix()
    rendererSize,     \* what renderer.setSize() stored
    pixelRatio,       \* what renderer.setPixelRatio() stored
    sceneChildren,    \* objects attached with scene.add()
    asset,            \* the GLB's content: centre of its geometry
    loadState,        \* the loader's request: pending, loaded or failed
    progressLogged,   \* number of '% loaded' lines written
    model,            \* let model = null
    objPosition,      \* .position of the two candidate objects
    centered,         \* the position the success callback centred to
    meshObj,          \* the fallback mesh, once built
    idleRotation,     \* the repeat: -1 tween on model.rotation.y
    scrollRotations,  \* number of scroll-driven tweens on model.rotation.z
    animatePending,   \* queued requestAnimationFrame(animate) callbacks
    pollPending,      \* queued requestAnimationFrame(rotateModel) callbacks
    lastAnimate,      \* what the latest animate() call did
    desktopActive,    \* the "(min-width: 1024px)" function is in effect
    mobileActive,     \* the "(max-width: 1023px)" function is in effect
    horizontalTween,  \* the pinned horizontal translation of the wrapper
    cardReveals,      \* cards holding a reveal-on-enter animation
    cardStyle,        \* each card's --x / --y custom properties
    lastMouse,        \* the latest mousemove event and its target
    lastOp            \* the handler that ran last

viewVars  == <<viewport, resizePending, mediaPending, sizes, cameraAspect,
               projectionAspect, rendererSize, pixelRatio>>
loadVars  == <<sceneChildren, asset, loadState, progressLogged, model,
               centered, meshObj, idleRotation>>
frameVars == <<objPosition, scrollRotations, animatePending, pollPending,
               lastAnimate>>
mediaVars == <<desktopActive, mobileActive, horizontalTween, cardReveals>>
cardVars  == <<cardStyle, lastMouse>>
sceneVars == <<viewVars, loadVars, frameVars, mediaVars>>
vars      == <<sceneVars, cardVars, lastOp>>

----------------------------------------------------------------------------
(* Bounds of the model *)

MaxProgress == 2
NumCards == 2

(* Program constants *)

MaxPixelRatio == 2
AmplitudeMilli == 100
FallbackRadiusMilli == 1500
DesktopMinWidth == 1024
MobileMaxWidth == 1023

NULL == "null"

(* No object yet, where the value will be a record *)
None == [none |-> TRUE]
Cards == 1 .. NumCards

(* The .horizontal-wrapper and .horizontal-section elements of the page. *)
wrapper == TRUE
horizontalSection == TRUE

----------------------------------------------------------------------------
(* Input domains *)

Vec(a, b, c) == [x |-> a, y |-> b, z |-> c]
Origin == Vec(0, 0, 0)

(* Viewports the browser can present.  width is the whole number of CSS    *)
(* pixels (window.innerWidth); frac says that the layout width has a       *)
(* fractional part on top of it, as it has under page zoom or a fractional *)
(* device pixel ratio.                                                     *)
Viewports ==
    { [width |-> 800,  frac |-> FALSE, height |-> 600, dpr |-> 1],
      [width |-> 1023, frac |-> FALSE, height |-> 768, dpr |-> 2],
      [width |-> 1023, frac |-> TRUE,  height |-> 768, dpr |-> 3],
      [width |-> 1024, frac |-> FALSE, height |-> 768, dpr |-> 1],
      [width |-> 1200, frac |-> FALSE, height |-> 600, dpr |-> 3] }

(* Centres of the bounding box of the asset's geometry. *)
Assets == { Vec(0, 0, 0), Vec(500, 0, -2000), Vec(0, 1000, 0), Vec(300, 50, 0) }

(* sin(Date.now() * 0.001) in thousandths, sampled every eighth of a period *)
SineTable == << 0, 707, 1000, 707, 0, -707, -1000, -707 >>
Phases == DOMAIN SineTable

Rects == { [left |-> 0, top |-> 0], [left |-> 100, top |-> 200] }

----------------------------------------------------------------------------
(* Pure helpers *)

RECURSIVE GCD(_, _)
GCD(a, b) == IF b = 0 THEN a ELSE GCD(b, a % b)

(* sizes.width / sizes.height, kept exact as a reduced fraction *)
Aspect(w, h) == LET g == GCD(w, h) IN << w \div g, h \div g >>

Min(a, b) == IF a <= b THEN a ELSE b

(* Math.sin(Date.now() * 0.001) * 0.1 *)
FloatY(t) == (SineTable[t] * AmplitudeMilli) \div 1000

(* new THREE.Box3().setFromObject(obj).getCenter(): the world-space centre *)
(* of the object's geometry, which moves with the object's position.       *)
GeometryCenter(obj) == IF obj = "gltf.scene" THEN asset ELSE Origin
BoxCenter(obj, pos) ==
    Vec(pos.x + GeometryCenter(obj).x,
        pos.y + GeometryCenter(obj).y,
        pos.z + GeometryCenter(obj).z)

(* Vector3.sub *)
Sub(p, c) == Vec(p.x - c.x, p.y - c.y, p.z - c.z)

(* The fallback built in the error callback. *)
FallbackMesh ==
    [ geometry  |-> "IcosahedronGeometry",
      radius    |-> FallbackRadiusMilli,
      detail    |-> 0,
      material  |-> "MeshStandardMaterial",
      color     |-> "0x111111",
      wireframe |-> TRUE ]

(* Media queries of ScrollTrigger.matchMedia *)
DesktopQuery(vp) == vp.width >= DesktopMinWidth
MobileQuery(vp) == vp.width < MobileMaxWidth
                   \/ (vp.width = MobileMaxWidth /\ ~vp.frac)

(* Decimal digits of a natural number, as JavaScript prints it *)
Digit(d) == << "0", "1", "2", "3", "4", "5", "6", "7", "8", "9" >>[d + 1]
RECURSIVE NatToString(_)
NatToString(n) ==
    IF n < 10 THEN << Digit(n) >>
    ELSE NatToString(n \div 10) \o << Digit(n % 10) >>
NumberToString(n) == IF n < 0 THEN << "-" >> \o NatToString(-n) ELSE NatToString(n)

(* `${v}px` *)
Px(v) == NumberToString(v) \o << "p", "x" >>

----------------------------------------------------------------------------
(* State after the script has run *)

Objects == { "gltf.scene", "mesh" }

SizesOf(vp) == [width |-> vp.width, height |-> vp.height]

Init ==
    /\ viewport \in Viewports
    /\ resizePending = FALSE
    /\ mediaPending = FALSE
    /\ sizes = SizesOf(viewport)
    /\ cameraAspect = Aspect(viewport.width, viewport.height)
    /\ projectionAspect = Aspect(viewport.width, viewport.height)
    /\ rendererSize = SizesOf(viewport)
    /\ pixelRatio = Min(viewport.dpr, MaxPixelRatio)
    /\ sceneChildren = { "camera", "ambientLight", "blueSpotLight",
                         "fillLight", "rimLight" }
    /\ asset \in Assets
    /\ loadState = "pending"
    /\ progressLogged = 0
    /\ model = NULL
    /\ objPosition = [o \in Objects |-> Origin]
    /\ centered = None
    /\ meshObj = None
    /\ idleRotation = FALSE
    /\ scrollRotations = 0
    /\ animatePending = 1
    /\ pollPending = 1
    /\ lastAnimate = [sawNull |-> TRUE, wrote |-> FALSE, rendered |-> TRUE]
    /\ desktopActive = DesktopQuery(viewport)
    /\ mobileActive = MobileQuery(viewport)
    /\ horizontalTween = (DesktopQuery(viewport) /\ wrapper /\ horizontalSection)
    /\ cardReveals = IF MobileQuery(viewport) THEN Cards ELSE {}
    /\ cardStyle = [c \in Cards |-> [x |-> << >>, y |-> << >>]]
    /\ lastMouse = None
    /\ lastOp = "script"

----------------------------------------------------------------------------
(* loader.load('Arivia.glb', onLoad, onProgress, onError).  load() is      *)
(* called once, so the loader reports progress while the request is        *)
(* pending and then delivers one terminal callback.                        *)

OnProgress ==
    /\ loadState = "pending"
    /\ progressLogged < MaxProgress
    /\ progressLogged' = progressLogged + 1
    /\ lastOp' = "onProgress"
    /\ UNCHANGED <<viewVars, frameVars, mediaVars, cardVars>>
    /\ UNCHANGED <<sceneChildren, asset, loadState, model, centered, meshObj,
                   idleRotation>>

OnLoad ==
    /\ loadState = "pending"
    /\ LET obj    == "gltf.scene"
           center == BoxCenter(obj, objPosition[obj])
           moved  == Sub(objPosition[obj], center)
       IN  /\ model' = obj
           /\ objPosition' = [objPosition EXCEPT ![obj] = moved]
           /\ centered' = moved
           /\ sceneChildren' = sceneChildren \cup { obj }
           /\ idleRotation' = TRUE
    /\ loadState' = "loaded"
    /\ lastOp' = "onLoad"
    /\ UNCHANGED <<viewVars, mediaVars, cardVars>>
    /\ UNCHANGED <<asset, progressLogged, meshObj, scrollRotations,
                   animatePending, pollPending, lastAnimate>>

(* The error callback without its last line, model = mesh *)
OnErrorForgetsModel ==
    /\ loadState = "pending"
    /\ meshObj' = FallbackMesh
    /\ sceneChildren' = sceneChildren \cup { "mesh" }
    /\ model' = model
    /\ loadState' = "failed"
    /\ lastOp' = "onError"
    /\ UNCHANGED <<viewVars, frameVars, mediaVars, cardVars>>
    /\ UNCHANGED <<asset, progressLogged, centered, idleRotation>>

(* The error callback without scene.add(mesh) *)
OnErrorNoSceneAdd ==
    /\ loadState = "pending"
    /\ meshObj' = FallbackMesh
    /\ sceneChildren' = sceneChildren
    /\ model' = "mesh"
    /\ loadState' = "failed"
    /\ lastOp' = "onError"
    /\ UNCHANGED <<viewVars, frameVars, mediaVars, cardVars>>
    /\ UNCHANGED <<asset, progressLogged, centered, idleRotation>>

OnError ==
    /\ loadState = "pending"
    /\ meshObj' = FallbackMesh
    /\ sceneChildren' = sceneChildren \cup { "mesh" }
    /\ model' = "mesh"
    /\ loadState' = "failed"
    /\ lastOp' = "onError"
    /\ UNCHANGED <<viewVars, frameVars, mediaVars, cardVars>>
    /\ UNCHANGED <<asset, progressLogged, centered, idleRotation>>

----------------------------------------------------------------------------
(* The viewport and the resize handler *)

ViewportChange ==
    /\ \E vp \in Viewports \ { viewport } : viewport' = vp
    /\ resizePending' = TRUE
    /\ mediaPending' = TRUE
    /\ lastOp' = "viewportChange"
    /\ UNCHANGED <<sizes, cameraAspect, projectionAspect, rendererSize,
                   pixelRatio>>
    /\ UNCHANGED <<loadVars, frameVars, mediaVars, cardVars>>

(* The handler with camera.aspect computed before sizes is updated *)
ResizeHandlerStaleAspect ==
    /\ resizePending
    /\ cameraAspect' = Aspect(sizes.width, sizes.height)
    /\ sizes' = [width |-> viewport.width, height |-> viewport.height]
    /\ projectionAspect' = cameraAspect'
    /\ rendererSize' = [width |-> sizes'.width, height |-> sizes'.height]
    /\ pixelRatio' = Min(viewport.dpr, MaxPixelRatio)
    /\ resizePending' = FALSE
    /\ lastOp' = "resize"
    /\ UNCHANGED <<viewport, mediaPending>>
    /\ UNCHANGED <<loadVars, frameVars, mediaVars, cardVars>>

ResizeHandler ==
    /\ resizePending
    /\ sizes' = [width |-> viewport.width, height |-> viewport.height]
    /\ cameraAspect' = Aspect(sizes'.width, sizes'.height)
    /\ projectionAspect' = cameraAspect'
    /\ rendererSize' = [width |-> sizes'.width, height |-> sizes'.height]
    /\ pixelRatio' = Min(viewport.dpr, MaxPixelRatio)
    /\ resizePending' = FALSE
    /\ lastOp' = "resize"
    /\ UNCHANGED <<viewport, mediaPending>>
    /\ UNCHANGED <<loadVars, frameVars, mediaVars, cardVars>>

(* ScrollTrigger.matchMedia: a query that starts to match runs its         *)
(* function; one that stops matching has what its function made reverted.  *)
MatchMediaUpdate ==
    /\ mediaPending
    /\ desktopActive' = DesktopQuery(viewport)
    /\ mobileActive' = MobileQuery(viewport)
    /\ horizontalTween' =
          IF desktopActive' /\ ~desktopActive THEN wrapper /\ horizontalSection
          ELSE IF ~desktopActive' THEN FALSE
          ELSE horizontalTween
    /\ cardReveals' =
          IF mobileActive' /\ ~mobileActive THEN Cards
          ELSE IF ~mobileActive' THEN {}
          ELSE cardReveals
    /\ mediaPending' = FALSE
    /\ lastOp' = "matchMedia"
    /\ UNCHANGED <<viewport, resizePending, sizes, cameraAspect,
                   projectionAspect, rendererSize, pixelRatio>>
    /\ UNCHANGED <<loadVars, frameVars, cardVars>>

----------------------------------------------------------------------------
(* The two per-frame callbacks *)

(* animate() registering itself twice *)
RescheduleTwice(n) == (n - 1) + 2

(* animate() writing the position without testing model *)
ModelAlways(m) == TRUE

(* requestAnimationFrame(animate) at the top of animate(): the callback    *)
(* that runs leaves the queue and registers itself again.                  *)
Reschedule(n) == (n - 1) + 1

(* if (model) *)
ModelExists(m) == m # NULL

Animate ==
    /\ animatePending >= 1
    /\ animatePending' = Reschedule(animatePending)
    /\ \E t \in Phases :
         LET writes == ModelExists(model)
             threw  == writes /\ model = NULL
         IN  /\ objPosition' =
                   IF writes /\ ~threw
                   THEN [objPosition EXCEPT ![model].y = FloatY(t)]
                   ELSE objPosition
             /\ lastAnimate' = [sawNull  |-> (model = NULL),
                                wrote    |-> writes,
                                rendered |-> ~threw]
    /\ lastOp' = "animate"
    /\ UNCHANGED <<viewVars, loadVars, mediaVars, cardVars>>
    /\ UNCHANGED <<scrollRotations, pollPending>>

(* rotateModel without its else branch: no retry while model is null *)
RotateModelGivesUp ==
    /\ pollPending >= 1
    /\ IF model # NULL
       THEN /\ scrollRotations' = scrollRotations + 1
            /\ pollPending' = pollPending - 1
       ELSE /\ scrollRotations' = scrollRotations
            /\ pollPending' = pollPending - 1
    /\ lastOp' = "rotateModel"
    /\ UNCHANGED <<viewVars, loadVars, mediaVars, cardVars>>
    /\ UNCHANGED <<objPosition, animatePending, lastAnimate>>

(* rotateModel asking for another frame on both branches *)
RotateModelKeepsPolling ==
    /\ pollPending >= 1
    /\ IF model # NULL
       THEN /\ scrollRotations' = Min(scrollRotations + 1, 2)
            /\ pollPending' = (pollPending - 1) + 1
       ELSE /\ scrollRotations' = scrollRotations
            /\ pollPending' = (pollPending - 1) + 1
    /\ lastOp' = "rotateModel"
    /\ UNCHANGED <<viewVars, loadVars, mediaVars, cardVars>>
    /\ UNCHANGED <<objPosition, animatePending, lastAnimate>>

RotateModel ==
    /\ pollPending >= 1
    /\ IF model # NULL
       THEN /\ scrollRotations' = scrollRotations + 1
            /\ pollPending' = pollPending - 1
       ELSE /\ scrollRotations' = scrollRotations
            /\ pollPending' = (pollPending - 1) + 1
    /\ lastOp' = "rotateModel"
    /\ UNCHANGED <<viewVars, loadVars, mediaVars, cardVars>>
    /\ UNCHANGED <<objPosition, animatePending, lastAnimate>>

----------------------------------------------------------------------------
(* card.addEventListener('mousemove', ...) *)

Pointers == { [x |-> 50, y |-> 30], [x |-> 150, y |-> 230], [x |-> 100, y |-> 207] }

(* The handler publishing the client coordinates, rect not subtracted *)
MouseMoveClientCoords ==
    /\ \E card \in Cards, rect \in Rects, p \in Pointers :
         /\ p.x >= rect.left
         /\ p.y >= rect.top
         /\ LET e == [clientX |-> p.x, clientY |-> p.y]
                x == e.clientX
                y == e.clientY
            IN  /\ cardStyle' = [cardStyle EXCEPT ![card] =
                                    [x |-> Px(x), y |-> Px(y)]]
                /\ lastMouse' = [card |-> card, clientX |-> e.clientX,
                                 clientY |-> e.clientY, rect |-> rect]
    /\ lastOp' = "mousemove"
    /\ UNCHANGED sceneVars

MouseMove ==
    /\ \E card \in Cards, rect \in Rects, p \in Pointers :
         /\ p.x >= rect.left
         /\ p.y >= rect.top
         /\ LET e == [clientX |-> p.x, clientY |-> p.y]
                x == e.clientX - rect.left
                y == e.clientY - rect.top
            IN  /\ cardStyle' = [cardStyle EXCEPT ![card] =
                                    [x |-> Px(x), y |-> Px(y)]]
                /\ lastMouse' = [card |-> card, clientX |-> e.clientX,
                                 clientY |-> e.clientY, rect |-> rect]
    /\ lastOp' = "mousemove"
    /\ UNCHANGED sceneVars

----------------------------------------------------------------------------
(* Specifications *)

SceneNext ==
    \/ OnProgress
    \/ OnLoad
    \/ OnError
    \/ ViewportChange
    \/ ResizeHandler
    \/ MatchMediaUpdate
    \/ Animate
    \/ RotateModel

Next == SceneNext \/ MouseMove

Spec == Init /\ [][Next]_vars

(* The scene, the viewport and the frame callbacks, without pointer events *)
SceneSpec == Init /\ [][SceneNext]_vars

(* Animation frames keep being delivered: a queued rotateModel callback   *)
(* is eventually run.                                                     *)
FairSceneSpec == SceneSpec /\ WF_vars(RotateModel)

(* Pointer events on the cards, interleaved with the load and the render  *)
(* loop.                                                                  *)
CardNext ==
    \/ MouseMove
    \/ OnLoad
    \/ OnError
    \/ Animate

CardSpec == Init /\ [][CardNext]_vars

----------------------------------------------------------------------------
(* Reading a published `<n>px` value back *)

DigitValue(ch) == CHOOSE d \in 0 .. 9 : Digit(d) = ch

RECURSIVE ParseNat(_)
ParseNat(s) ==
    IF Len(s) = 0 THEN 0
    ELSE ParseNat(SubSeq(s, 1, Len(s) - 1)) * 10 + DigitValue(s[Len(s)])

HasPxUnit(s) ==
    /\ Len(s) >= 3
    /\ SubSeq(s, Len(s) - 1, Len(s)) = << "p", "x" >>
    /\ \A i \in 1 .. Len(s) - 2 : \E d \in 0 .. 9 : s[i] = Digit(d)

PxValue(s) == ParseNat(SubSeq(s, 1, Len(s) - 2))

Abs(n) == IF n < 0 THEN -n ELSE n

Terminal == { "onLoad", "onError" }

----------------------------------------------------------------------------
(* C1: model starts null and is written exactly once: it is null exactly  *)
(* while the load is pending, it becomes non-null in the step of the      *)
(* loader's terminal callback (success or failure) and in no other step,  *)
(* and once non-null it never changes, whatever progress callbacks,       *)
(* render ticks, polling ticks and resize events are interleaved.         *)
C1_ModelSetOnce ==
    /\ model = NULL
    /\ [](model = NULL <=> loadState = "pending")
    /\ [][ /\ (model # NULL => model' = model)
           /\ (model' # model => lastOp' \in Terminal)
           /\ (lastOp' \in Terminal => model = NULL /\ model' # NULL) ]_vars

(* The asset is loaded and frames, a resize and the attachment followed.  *)
C1_Witness ==
    /\ model = "gltf.scene"
    /\ scrollRotations = 1
    /\ lastOp = "resize"
    /\ progressLogged >= 1

(* C2: rotateModel attaches the scroll-driven rotation at most once,      *)
(* never while model is null, the first polling tick that runs with model *)
(* non-null attaches it, and with frames being delivered that tick comes: *)
(* model non-null leads to the rotation being attached.                   *)
C2_AttachOnce ==
    /\ [](scrollRotations <= 1)
    /\ [](scrollRotations >= 1 => model # NULL)
    /\ [][ /\ (scrollRotations' # scrollRotations =>
                  model # NULL /\ lastOp' = "rotateModel")
           /\ (lastOp' = "rotateModel" /\ model # NULL =>
                  scrollRotations = 0 /\ scrollRotations' = 1) ]_vars
    /\ ((model # NULL) ~> (scrollRotations = 1))

(* The rotation is attached to the fallback the failure callback set.     *)
C2_Witness ==
    /\ model = "mesh"
    /\ scrollRotations = 1
    /\ lastOp = "rotateModel"

(* C3: a render tick that runs while model is null writes no position,    *)
(* still renders and leaves a next tick scheduled; a tick writes the      *)
(* float offset only when model is non-null, and every tick renders.      *)
C3_NullTolerantTick ==
    /\ [](lastAnimate.wrote => ~lastAnimate.sawNull)
    /\ [](lastAnimate.rendered)
    /\ [][ lastOp' = "animate" =>
             /\ animatePending' >= 1
             /\ lastAnimate'.rendered
             /\ lastAnimate'.wrote = (model # NULL)
             /\ (model = NULL => objPosition' = objPosition) ]_vars

(* A tick ran before the load completed, after a progress callback.       *)
C3_Witness ==
    /\ lastOp = "animate"
    /\ model = NULL
    /\ lastAnimate.sawNull
    /\ lastAnimate.rendered
    /\ progressLogged >= 1

(* C4: after a failed load model is the fallback, a wireframe icosahedron *)
(* mesh whose value and geometry centre owe nothing to the asset, the     *)
(* fallback is in the scene and the asset is not (nor was it moved or     *)
(* animated), and the render loop and the rotation retry go on.           *)
C4_FallbackOnFailure ==
    loadState = "failed" =>
        /\ model = "mesh"
        /\ meshObj # None
        /\ meshObj.geometry = "IcosahedronGeometry"
        /\ meshObj.wireframe
        /\ meshObj.radius = FallbackRadiusMilli
        /\ GeometryCenter(model) = Origin
        /\ "mesh" \in sceneChildren
        /\ "gltf.scene" \notin sceneChildren
        /\ objPosition["gltf.scene"] = Origin
        /\ ~idleRotation
        /\ animatePending >= 1
        /\ (pollPending >= 1 \/ scrollRotations = 1)

(* After the failure the render loop floats the fallback.                 *)
C4_Witness ==
    /\ loadState = "failed"
    /\ lastOp = "animate"
    /\ objPosition["mesh"].y = AmplitudeMilli
    /\ asset # Origin

(* C5: once the resize handler has run for the current viewport, sizes    *)
(* equal the window's dimensions, camera.aspect is width / height of that *)
(* viewport and the renderer's size is that viewport's size; this stays   *)
(* so through render ticks and load callbacks until the viewport changes. *)
C5_ResizeConsistent ==
    ~resizePending =>
        /\ sizes.width = viewport.width
        /\ sizes.height = viewport.height
        /\ cameraAspect[1] * viewport.height = cameraAspect[2] * viewport.width
        /\ projectionAspect = cameraAspect
        /\ rendererSize.width = viewport.width
        /\ rendererSize.height = viewport.height

(* The handler has just run for a 1200 x 600 viewport after the load.     *)
C5_Witness ==
    /\ lastOp = "resize"
    /\ sizes = [width |-> 1200, height |-> 600]
    /\ cameraAspect = << 2, 1 >>
    /\ model # NULL

(* C6: for every viewport width exactly one responsive variant is in      *)
(* effect: from 1024px up the horizontal scroll is active and no card has *)
(* a reveal animation; below 1024px the horizontal scroll is absent and   *)
(* every card has a reveal animation.                                     *)
C6_ExactlyOneVariant ==
    ~mediaPending =>
        /\ (viewport.width >= DesktopMinWidth =>
               horizontalTween /\ cardReveals = {})
        /\ (viewport.width < DesktopMinWidth =>
               ~horizontalTween /\ cardReveals = Cards)

(* C7: after a mousemove on a card, the card's --x and --y are the        *)
(* pointer's client position minus the card's rect left and top, in px    *)
(* ((50, 30) inside the card gives 50px and 30px); the event changes no   *)
(* other card's variables and no scene state.                             *)
C7_PointerVariables ==
    /\ [](lastMouse # None =>
            LET st == cardStyle[lastMouse.card]
                dx == lastMouse.clientX - lastMouse.rect.left
                dy == lastMouse.clientY - lastMouse.rect.top
            IN  /\ HasPxUnit(st.x)
                /\ HasPxUnit(st.y)
                /\ PxValue(st.x) = dx
                /\ PxValue(st.y) = dy
                /\ (dx = 50 /\ dy = 30 =>
                       st = [x |-> << "5", "0", "p", "x" >>,
                             y |-> << "3", "0", "p", "x" >>]))
    /\ [][ lastOp' = "mousemove" =>
             /\ \A c \in Cards \ { lastMouse'.card } : cardStyle'[c] = cardStyle[c]
             /\ UNCHANGED sceneVars ]_vars

(* Two cards hold different values, published while the asset is loaded.  *)
C7_Witness ==
    /\ lastOp = "mousemove"
    /\ model = "gltf.scene"
    /\ lastMouse.card = 2
    /\ lastMouse.rect.left = 100
    /\ cardStyle[2] = [x |-> << "5", "0", "p", "x" >>, y |-> << "3", "0", "p", "x" >>]
    /\ cardStyle[1].x = << "1", "5", "0", "p", "x" >>

(* C8 as stated: in every reachable state a next render tick and a next   *)
(* polling-retry tick are scheduled.                                      *)
C8_BothAlwaysScheduled ==
    /\ animatePending >= 1
    /\ pollPending >= 1

(* C8 amended: a next render tick is scheduled in every reachable state;  *)
(* a polling-retry tick is scheduled exactly while the rotation has not   *)
(* been attached, and none is scheduled once it has.                      *)
C8_PollingEndsAtAttach ==
    /\ animatePending >= 1
    /\ (pollPending = 1 <=> scrollRotations = 0)
    /\ (pollPending = 0 <=> scrollRotations = 1)

(* The rotation is attached, polling has ended, the render loop goes on.  *)
C8_Witness ==
    /\ scrollRotations = 1
    /\ pollPending = 0
    /\ lastOp = "animate"
    /\ model = "mesh"

(* C9: after a successful load the bounding-box centre is the origin, and *)
(* on later ticks the float is an offset on the centred position: y stays *)
(* within the amplitude of the centred y, x and z stay centred.           *)
C9_FloatIsOffset ==
    model = "gltf.scene" =>
        /\ (lastOp = "onLoad" =>
               BoxCenter(model, objPosition[model]) = Origin)
        /\ objPosition[model].x = centered.x
        /\ objPosition[model].z = centered.z
        /\ Abs(objPosition[model].y - centered.y) <= AmplitudeMilli

(* C10: exactly one animate callback is pending in every reachable state, *)
(* whatever the load outcome, the resize events and the polling retry.    *)
C10_OneAnimatePending ==
    animatePending = 1

(* A tick that floats the loaded asset after polling has ended.           *)
C10_Witness ==
    /\ lastOp = "animate"
    /\ lastAnimate.wrote
    /\ model = "gltf.scene"
    /\ pollPending = 0
    /\ animatePending = 1

====
